---- MODULE Spec2Model ----
(***************************************************************************)
(* Model of the poland-in-numbers front end.                               *)
(*                                                                         *)
(*   - the application entry point (main.ts): a stylesheet import, a       *)
(*     lookup of the mount element with document.querySelector('#app'),    *)
(*     a null guard and one innerHTML assignment of a fixed template;      *)
(*   - the coverage thresholds of vite.config.ts.                          *)
(*                                                                         *)
(* The document is a sequence of nodes in document order (preorder); a     *)
(* node's depth gives the tree: the descendants of node i are the nodes    *)
(* that follow it with a greater depth, up to the first that has not.      *)
(* Every node carries an identity (nid), so that "the same element" and    *)
(* "an equal element" are different things, as in the DOM.                 *)
(***************************************************************************)
EXTENDS Integers, Sequences, FiniteSets, TLC

VARIABLES
    doc,      \* the document: Seq of nodes in document order
    pc,       \* position of the module's evaluation
    app,      \* const app: Uninit before the lookup, NULL, or the nid found
    css,      \* contents of ./styles/main.css (not part of the sources)
    styles,   \* the stylesheet the page has applied ("none" before the import)
    threw,    \* the module's evaluation raised an error
    writes,   \* number of innerHTML assignments performed
    nextNid,  \* identity of the next node created
    pending,  \* browser events queued for the event loop
    handled,  \* browser events whose callbacks have run
    runs,     \* number of evaluations of the module
    cov,      \* measured coverage, per metric, in percent
    gate      \* outcome of the coverage check

vars == <<doc, pc, app, css, styles, threw, writes, nextNid, pending, handled,
          runs, cov, gate>>

(***************************************************************************)
(* Bounds of the model.                                                    *)
(***************************************************************************)
MaxNodes == 3

MaxEvents == 1

MaxRuns == 2

(***************************************************************************)
(* The DOM.                                                                *)
(***************************************************************************)
NULL == 0

Uninit == -1

Ids == {"app", "nav"}

Tags == {"div", "textarea"}

\* Elements whose innerHTML is parsed as text, not as markup.
RawTextTags == {"textarea"}

Element(n, tag, id, depth) ==
    [nid |-> n, kind |-> "element", tag |-> tag, id |-> id, data |-> <<>>,
     depth |-> depth]

Text(n, data, depth) ==
    [nid |-> n, kind |-> "text", tag |-> "#text", id |-> "", data |-> data,
     depth |-> depth]

\* Last index of the subtree rooted at index i.
SubtreeEnd(d, i) ==
    CHOOSE j \in i..Len(d) :
        /\ \A k \in (i + 1)..j : d[k].depth > d[i].depth
        /\ j = Len(d) \/ d[j + 1].depth <= d[i].depth

\* Indices of the descendants of the node at index i.
Descendants(d, i) == (i + 1)..SubtreeEnd(d, i)

\* Indices of the children of the node at index i.
Children(d, i) == {k \in Descendants(d, i) : d[k].depth = d[i].depth + 1}

IndexOf(d, n) == CHOOSE i \in 1..Len(d) : d[i].nid = n

InDoc(d, n) == \E i \in 1..Len(d) : d[i].nid = n

(***************************************************************************)
(* The template literal assigned to app.innerHTML, as its lexemes.         *)
(***************************************************************************)
Chars(s) == [t |-> "text", tag |-> "", id |-> "", src |-> s]

Open(tag, id, s) == [t |-> "open", tag |-> tag, id |-> id, src |-> s]

Close(tag, s) == [t |-> "close", tag |-> tag, id |-> "", src |-> s]

AppHTML_NoContainer ==
    << Chars("\n    "), Open("header", "", "<header>"),
       Chars("\n      "), Open("h1", "", "<h1>"), Chars("Poland in Numbers"),
       Close("h1", "</h1>"),
       Chars("\n      "), Open("p", "", "<p>"),
       Chars("D3.js Data Visualization App"), Close("p", "</p>"),
       Chars("\n    "), Close("header", "</header>"),
       Chars("\n    "), Open("main", "", "<main>"),
       Chars("\n    "), Close("main", "</main>"),
       Chars("\n  ") >>

AppHTML ==
    << Chars("\n    "), Open("header", "", "<header>"),
       Chars("\n      "), Open("h1", "", "<h1>"), Chars("Poland in Numbers"),
       Close("h1", "</h1>"),
       Chars("\n      "), Open("p", "", "<p>"),
       Chars("D3.js Data Visualization App"), Close("p", "</p>"),
       Chars("\n    "), Close("header", "</header>"),
       Chars("\n    "), Open("main", "", "<main>"),
       Chars("\n      "),
       Open("div", "visualizations", "<div id=\"visualizations\">"),
       Close("div", "</div>"),
       Chars("\n    "), Close("main", "</main>"),
       Chars("\n  ") >>

\* The source text of a token sequence.
SourceText(html) == [k \in 1..Len(html) |-> html[k].src]

\* The HTML tree builder on a well-formed token sequence: nodes in document
\* order, depths relative to the context element (its children have depth 1).
RECURSIVE TreeBuild(_, _)
TreeBuild(toks, depth) ==
    IF toks = <<>> THEN <<>>
    ELSE LET h == Head(toks) IN
         CASE h.t = "open" ->
                <<Element(0, h.tag, h.id, depth)>> \o TreeBuild(Tail(toks), depth + 1)
           [] h.t = "close" -> TreeBuild(Tail(toks), depth - 1)
           [] OTHER ->
                <<Text(0, <<h.src>>, depth)>> \o TreeBuild(Tail(toks), depth)

\* The HTML fragment parsing algorithm with a context element of tag ctx:
\* a raw-text context takes the whole source as one text node.
ParseFragment(ctx, html) ==
    IF ctx \in RawTextTags
    THEN IF html = <<>> THEN <<>> ELSE <<Text(0, SourceText(html), 1)>>
    ELSE TreeBuild(html, 1)

\* The fragment's nodes as children of the node at index i, with fresh
\* identities from n on.
Adopt(d, i, frag, n) ==
    [k \in 1..Len(frag) |->
        [frag[k] EXCEPT !.nid = n + k - 1, !.depth = @ + d[i].depth]]

\* A setter that adds to the element's children instead of replacing them.
AppendHTML(d, i, html, n) ==
    SubSeq(d, 1, SubtreeEnd(d, i))
        \o Adopt(d, i, ParseFragment(d[i].tag, html), n)
        \o SubSeq(d, SubtreeEnd(d, i) + 1, Len(d))

\* An assignment to outerHTML: the element itself is replaced.
SetOuterHTML(d, i, html, n) ==
    SubSeq(d, 1, i - 1)
        \o [k \in 1..Len(ParseFragment(d[i].tag, html)) |->
              [ParseFragment(d[i].tag, html)[k] EXCEPT
                  !.nid = n + k - 1, !.depth = @ + d[i].depth - 1]]
        \o SubSeq(d, SubtreeEnd(d, i) + 1, Len(d))

\* element.innerHTML = html: all children are removed, the parsed fragment
\* takes their place.
SetInnerHTML(d, i, html, n) ==
    SubSeq(d, 1, i)
        \o Adopt(d, i, ParseFragment(d[i].tag, html), n)
        \o SubSeq(d, SubtreeEnd(d, i) + 1, Len(d))

\* A lookup that returns the last match instead of the first.
QuerySelectorLast(d, id) ==
    IF \E i \in 1..Len(d) : d[i].kind = "element" /\ d[i].id = id
    THEN d[CHOOSE i \in 1..Len(d) :
              /\ d[i].kind = "element" /\ d[i].id = id
              /\ \A j \in (i + 1)..Len(d) : ~(d[j].kind = "element" /\ d[j].id = id)].nid
    ELSE NULL

\* document.querySelector('#' + id): the first element in document order
\* with that id, or null.
QuerySelector(d, id) ==
    IF \E i \in 1..Len(d) : d[i].kind = "element" /\ d[i].id = id
    THEN d[CHOOSE i \in 1..Len(d) :
              /\ d[i].kind = "element" /\ d[i].id = id
              /\ \A j \in 1..(i - 1) : ~(d[j].kind = "element" /\ d[j].id = id)].nid
    ELSE NULL

(***************************************************************************)
(* Control flow of the module's top level.                                 *)
(***************************************************************************)
\* A guard that lets every value through.
TruthyAlways(a) == TRUE

\* if (app): null is falsy, an element is truthy.
Truthy(a) == a # NULL /\ a # Uninit

\* An evaluation order in which the lookup runs before the import.
StatementsLookupFirst == <<"query", "import", "guard", "write">>

\* The statements of the module in evaluation order: the import is hoisted
\* and evaluated first, then the lookup, the guard and the assignment.
Statements == <<"import", "query", "guard", "write">>

\* The first statement of the module.
FirstStatement == Statements[1]

Position(p) == CHOOSE k \in 1..Len(Statements) : Statements[k] = p

\* The statement that follows p; a guard that fails skips the assignment.
Successor(p, a) ==
    IF p = "guard" /\ ~Truthy(a) THEN "done"
    ELSE IF Position(p) = Len(Statements) THEN "done"
    ELSE Statements[Position(p) + 1]

\* The module's top level with an await between the lookup and the write.
SuspendsBeforeWrite(p) == p \in {"guard", "write"}

\* The statements at which the evaluation yields to the event loop: the
\* module has no await, timer or callback, so none.
Suspends(p) == FALSE

\* A listener that retries the mount when the document changes.
ReactionRetry(d, n) ==
    IF QuerySelector(d, "app") # NULL
    THEN SetInnerHTML(d, IndexOf(d, QuerySelector(d, "app")), AppHTML, n)
    ELSE d

\* What the application does when the document changes after the module
\* has been evaluated: it registers no listener or observer, so nothing.
Reaction(d, n) == d

(***************************************************************************)
(* Coverage thresholds (vite.config.ts).                                   *)
(***************************************************************************)
Metrics == {"lines", "functions", "branches", "statements"}

Percentages == {0, 50, 79, 80, 81, 100}

ThresholdsLowBranches ==
    [lines |-> 80, functions |-> 80, branches |-> 50, statements |-> 80]

Thresholds ==
    [lines |-> 80, functions |-> 80, branches |-> 80, statements |-> 80]

\* The coverage check: a metric fails when its percentage is below its
\* threshold.
MeetsThresholds(c) == \A m \in Metrics : ~(c[m] < Thresholds[m])

NoCoverage == [m \in Metrics |-> 0]

(***************************************************************************)
(* Initial states.                                                         *)
(***************************************************************************)
\* The documents of n elements: identities in document order, every depth
\* at most one more than the depth before it.
DocsOfLen(n) ==
    { [i \in 1..n |-> Element(i, tg[i], ids[i], dp[i])] :
        tg \in [1..n -> Tags], ids \in [1..n -> Ids],
        dp \in { f \in [1..n -> 1..n] :
                    /\ n > 0 => f[1] = 1
                    /\ \A i \in 2..n : f[i] <= f[i - 1] + 1 } }

Documents == UNION { DocsOfLen(n) : n \in 0..MaxNodes }

Stylesheets == {"light", "dark"}

Init ==
    /\ doc \in Documents
    /\ pc = FirstStatement
    /\ app = Uninit
    /\ css \in Stylesheets
    /\ styles = "none"
    /\ threw = FALSE
    /\ writes = 0
    /\ nextNid = Len(doc) + 1
    /\ pending = 0
    /\ handled = 0
    /\ runs = 1
    /\ cov = NoCoverage
    /\ gate = "off"

(***************************************************************************)
(* The module's evaluation, statement by statement.                        *)
(***************************************************************************)
\* import './styles/main.css'
Import ==
    /\ pc = "import"
    /\ styles' = css
    /\ pc' = Successor(pc, app)
    /\ UNCHANGED <<doc, app, css, threw, writes, nextNid, pending, handled,
                   runs, cov, gate>>

\* const app = document.querySelector<HTMLDivElement>('#app')
Query ==
    /\ pc = "query"
    /\ app' = QuerySelector(doc, "app")
    /\ pc' = Successor(pc, app')
    /\ UNCHANGED <<doc, css, styles, threw, writes, nextNid, pending, handled,
                   runs, cov, gate>>

\* if (app) {
Guard ==
    /\ pc = "guard"
    /\ pc' = Successor(pc, app)
    /\ UNCHANGED <<doc, app, css, styles, threw, writes, nextNid, pending,
                   handled, runs, cov, gate>>

\* app.innerHTML = `...`: a TypeError when app is null.
Write ==
    /\ pc = "write"
    /\ IF app = NULL \/ app = Uninit
          THEN /\ threw' = TRUE
               /\ UNCHANGED <<doc, writes, nextNid>>
          ELSE /\ doc' = SetInnerHTML(doc, IndexOf(doc, app), AppHTML, nextNid)
               /\ writes' = writes + 1
               /\ nextNid' = nextNid + Len(AppHTML)
               /\ UNCHANGED threw
    /\ pc' = Successor(pc, app)
    /\ UNCHANGED <<app, css, styles, pending, handled, runs, cov, gate>>

(***************************************************************************)
(* The browser's event loop around it.                                     *)
(***************************************************************************)
\* An event (input, timer, another script's callback) is queued; this can
\* happen at any time.
Enqueue ==
    /\ pending + handled < MaxEvents
    /\ pending' = pending + 1
    /\ UNCHANGED <<doc, pc, app, css, styles, threw, writes, nextNid, handled,
                   runs, cov, gate>>

\* The event loop runs a queued callback when no script is running; the
\* callback appends an empty element with id 'app' to the document, and the
\* application reacts to the change.
HandleEvent ==
    /\ pending > 0
    /\ pc = "done" \/ Suspends(pc)
    /\ doc' = Reaction(Append(doc, Element(nextNid, "div", "app", 1)), nextNid + 1)
    /\ nextNid' = nextNid + 1 + Len(AppHTML)
    /\ pending' = pending - 1
    /\ handled' = handled + 1
    /\ UNCHANGED <<pc, app, css, styles, threw, writes, runs, cov, gate>>

\* The module is evaluated again (a second bootstrap on the same document).
Rerun ==
    /\ pc = "done"
    /\ runs < MaxRuns
    /\ runs' = runs + 1
    /\ pc' = FirstStatement
    /\ app' = Uninit
    /\ UNCHANGED <<doc, css, styles, threw, writes, nextNid, pending, handled,
                   cov, gate>>

Bootstrap == Import \/ Query \/ Guard \/ Write

Next == Import \/ Query \/ Guard \/ Write \/ Enqueue \/ HandleEvent

Spec == Init /\ [][Next]_vars

\* The evaluation of a module runs to completion: a statement that can run
\* does run.
FairSpec == Init /\ [][Next]_vars /\ WF_vars(Bootstrap)

NextRerun == Import \/ Query \/ Guard \/ Write \/ Enqueue \/ HandleEvent \/ Rerun

SpecRerun == Init /\ [][NextRerun]_vars

(***************************************************************************)
(* The coverage gate.                                                      *)
(***************************************************************************)
InitGate ==
    /\ doc = <<>>
    /\ pc = "done"
    /\ app = NULL
    /\ css = "light"
    /\ styles = "light"
    /\ threw = FALSE
    /\ writes = 0
    /\ nextNid = 1
    /\ pending = 0
    /\ handled = 0
    /\ runs = 1
    /\ cov \in [Metrics -> Percentages]
    /\ gate = "pending"

\* The test run ends: the measured percentages are compared with the
\* thresholds.
CheckCoverage ==
    /\ gate = "pending"
    /\ gate' = IF MeetsThresholds(cov) THEN "pass" ELSE "fail"
    /\ UNCHANGED <<doc, pc, app, css, styles, threw, writes, nextNid, pending,
                   handled, runs, cov>>

NextGate == CheckCoverage

SpecGate == InitGate /\ [][NextGate]_vars

(***************************************************************************)
(* Vocabulary of the properties.                                           *)
(***************************************************************************)
\* A node without its identity.
Shape(x, base) ==
    [kind |-> x.kind, tag |-> x.tag, id |-> x.id, data |-> x.data,
     depth |-> x.depth - base]

\* The document up to node identity (what isEqualNode compares).
Markup(d) == [k \in 1..Len(d) |-> Shape(d[k], 0)]

\* The contents of the node at index i, up to node identity, depths
\* relative to the node.
Contents(d, i) ==
    [k \in 1..(SubtreeEnd(d, i) - i) |-> Shape(d[i + k], d[i].depth)]

\* The subtree at index i with identities, depths relative to the node.
Subtree(d, i) ==
    [k \in 1..(SubtreeEnd(d, i) - i + 1) |->
        [d[i + k - 1] EXCEPT !.depth = @ - d[i].depth]]

\* Index of the element the lookup returned.
Mount == IndexOf(doc, app)

Mounted == pc = "done" /\ Truthy(app)

\* Some text inside the node at index i carries the string s.
HasText(d, i, s) ==
    \E k \in Descendants(d, i) :
        d[k].kind = "text" /\ \E c \in 1..Len(d[k].data) : d[k].data[c] = s

\* An element with id 'visualizations' and no children inside node i.
HasEmptyContainer(d, i) ==
    \E k \in Descendants(d, i) :
        /\ d[k].kind = "element"
        /\ d[k].id = "visualizations"
        /\ Children(d, k) = {}

\* Indices of the elements with id 'app'.
AppElements(d) == {k \in 1..Len(d) : d[k].kind = "element" /\ d[k].id = "app"}

\* The step is the innerHTML assignment.
IsWrite == writes' > writes

C2_AbsentMountNoChange ==
    [][(pc # "done" /\ QuerySelector(doc, "app") = NULL) =>
          /\ doc' = doc
          /\ threw' = FALSE
          /\ writes' = 0
          /\ pc' \in {pc, Successor(pc, NULL)}]_vars

C2_Witness ==
    /\ pc = "done"
    /\ app = NULL
    /\ Len(doc) = MaxNodes
    /\ handled = 0
    /\ ~threw

(***************************************************************************)
(* C3. A second bootstrap that directly follows the first leaves the       *)
(* document as the first left it (up to the identity of the nodes, which   *)
(* the assignment creates anew).                                           *)
(***************************************************************************)
C3_Idempotent ==
    [][(runs >= 2 /\ handled = 0 /\ pc' # pc) => Markup(doc') = Markup(doc)]_vars

C3_Witness ==
    /\ runs = 2
    /\ pc = "done"
    /\ writes = 2
    /\ handled = 0
    /\ Truthy(app)
    /\ Mount > 1
    /\ doc[Mount].tag = "div"

(***************************************************************************)
(* C4. The assignment replaces: no node that was inside the mount element  *)
(* is in the document afterwards, and the mount element's contents are     *)
(* the parsed template, whatever they were before.                         *)
(***************************************************************************)
C4_Replaces ==
    [][IsWrite =>
          /\ \A k \in Descendants(doc, Mount) : ~InDoc(doc', doc[k].nid)
          /\ InDoc(doc', app)
          /\ Contents(doc', IndexOf(doc', app))
                = Markup(ParseFragment(doc[Mount].tag, AppHTML))]_vars

C4_Witness ==
    /\ Mounted
    /\ writes = 1
    /\ handled = 0
    /\ \E n \in 1..MaxNodes : n < nextNid - Len(AppHTML) /\ ~InDoc(doc, n)

(***************************************************************************)
(* C5. The gate has four minimums, for lines, functions, branches and      *)
(* statements, each 80: the check passes exactly when all four measured    *)
(* percentages are at least 80.                                            *)
(***************************************************************************)
C5_CoverageGate ==
    /\ gate = "pass" => \A m \in Metrics : cov[m] >= 80
    /\ gate = "fail" => \E m \in Metrics : cov[m] < 80
    /\ gate \in {"pending", "pass", "fail"}

C5_Witness ==
    /\ gate = "fail"
    /\ cov["branches"] = 79
    /\ \A m \in Metrics \ {"branches"} : cov[m] >= 80

(***************************************************************************)
(* C6. The bootstrap terminates, assigns at most once, never starts again  *)
(* on the same page, and no event callback runs before it has finished.    *)
(* Termination is stated as its two halves: until it is done a statement   *)
(* of the bootstrap can always run (and under FairSpec does run), and      *)
(* every step that moves the evaluation moves it forward in the finite     *)
(* statement order, from which it never comes back.                        *)
(***************************************************************************)
C6_Rank(p) == IF p = "done" THEN Len(Statements) + 1 ELSE Position(p)

C6_RunsOnceSynchronously ==
    /\ [](writes <= 1 /\ runs = 1)
    /\ [](pc # "done" => ENABLED Bootstrap)
    /\ [][pc' # pc => C6_Rank(pc') > C6_Rank(pc)]_vars
    /\ [][handled' > handled => pc = "done"]_vars

C6_Witness ==
    /\ pc = "done"
    /\ writes = 1
    /\ handled = MaxEvents

(***************************************************************************)
(* C7. When the lookup found nothing, an element with id 'app' that is     *)
(* added later is never written: it stays empty and no assignment is ever  *)
(* performed.                                                              *)
(***************************************************************************)
C7_NoRetry ==
    app = NULL =>
        /\ writes = 0
        /\ \A k \in AppElements(doc) : Descendants(doc, k) = {}
        /\ \A k \in 1..Len(doc) : doc[k].kind = "element" /\ doc[k].id # "visualizations"

C7_Witness ==
    /\ app = NULL
    /\ pc = "done"
    /\ handled = MaxEvents
    /\ AppElements(doc) # {}

(***************************************************************************)
(* C8. The stylesheet is imported on every bootstrap, before the lookup,   *)
(* with or without a mount element; what the lookup returns and what is    *)
(* written are determined by the document alone.                           *)
(***************************************************************************)
C8_StylesheetFirst ==
    /\ app # Uninit => styles = css
    /\ pc = "done" => styles = css
    /\ (app # Uninit /\ handled = 0) => (app = NULL <=> AppElements(doc) = {})
    /\ Mounted =>
          Contents(doc, Mount) = Markup(ParseFragment(doc[Mount].tag, AppHTML))

C8_Witness ==
    /\ pc = "done"
    /\ app = NULL
    /\ styles = "dark"
    /\ Len(doc) > 0

(***************************************************************************)
(* C9. The bootstrap changes only the children of the mount element: the   *)
(* assignment keeps every node before the mount element, the mount         *)
(* element itself and every node after its subtree; the other statements   *)
(* keep the whole document.                                                *)
(***************************************************************************)
C9_Frame ==
    [][(pc' # pc) =>
          IF IsWrite
          THEN /\ InDoc(doc', app)
               /\ SubSeq(doc', 1, IndexOf(doc', app)) = SubSeq(doc, 1, Mount)
               /\ SubSeq(doc', SubtreeEnd(doc', IndexOf(doc', app)) + 1, Len(doc'))
                    = SubSeq(doc, SubtreeEnd(doc, Mount) + 1, Len(doc))
          ELSE doc' = doc]_vars

C9_Witness ==
    /\ Mounted
    /\ handled = 0
    /\ Mount > 1
    /\ SubtreeEnd(doc, Mount) < Len(doc)

(***************************************************************************)
(* C10. As stated: the assignment goes to the first element with id 'app'  *)
(* in document order, and every other element with that id is still in     *)
(* the document with its prior contents.                                   *)
(***************************************************************************)
C10_Original ==
    [][IsWrite =>
          /\ Mount = CHOOSE k \in AppElements(doc) : \A j \in AppElements(doc) : k <= j
          /\ \A k \in AppElements(doc) \ {Mount} :
                /\ InDoc(doc', doc[k].nid)
                /\ Subtree(doc', IndexOf(doc', doc[k].nid)) = Subtree(doc, k)]_vars

(***************************************************************************)
(* C10, amended. The assignment goes to the first element with id 'app'    *)
(* in document order; every other element with that id that is not inside  *)
(* the first keeps its prior contents, and one that is inside the first    *)
(* is removed from the document with the rest of the first's contents.     *)
(***************************************************************************)
C10_FirstOnly ==
    [][IsWrite =>
          /\ Mount = CHOOSE k \in AppElements(doc) : \A j \in AppElements(doc) : k <= j
          /\ \A k \in AppElements(doc) \ {Mount} :
                IF k \in Descendants(doc, Mount)
                THEN ~InDoc(doc', doc[k].nid)
                ELSE /\ InDoc(doc', doc[k].nid)
                     /\ Subtree(doc', IndexOf(doc', doc[k].nid)) = Subtree(doc, k)]_vars

C10_Witness ==
    /\ Mounted
    /\ handled = 0
    /\ \E k \in AppElements(doc) : k > Mount /\ Descendants(doc, k) # {}

====
